---- MODULE Spec2Model ----
(***************************************************************************)
(* Model of the hybrid retrieval store of src/src/rag.py: the in-memory    *)
(* corpus all_documents, the module-level index references, the persisted  *)
(* snapshot all_documents.pkl and the Chroma directory vector_db, driven   *)
(* by executor threads that run add_to_db, clear_all_vector_dbs,           *)
(* recreate_vector_dbs_from_notes and get_context, and by process          *)
(* restarts that run the module start-up.                                  *)
(***************************************************************************)
EXTENDS Integers, Sequences, FiniteSets, TLC

(***************************************************************************)
(* Bounds of the model.                                                    *)
(***************************************************************************)
MaxCorpus == 4
MaxVectors == 8

(***************************************************************************)
(* The notes directory: subject directories and the PDF files in them, in  *)
(* the order the file system lists them.                                   *)
(***************************************************************************)
Threads == {"t1", "t2"}

NotesDir == <<"S1", "S2">>

Glob(sub_code) ==
    CASE sub_code = "S1" -> <<"a.pdf", "x.pdf">>
      [] sub_code = "S2" -> <<"b.pdf", "e.pdf">>
      [] OTHER -> <<>>

SubjectCodes == {"S1", "S2", "S9"}

PathExists(sub_code) == \E i \in 1..Len(NotesDir) : NotesDir[i] = sub_code

\* pymupdf4llm.to_markdown raises on a file it cannot parse
Unparseable(file) == file = "x.pdf"

\* the page_content of the chunks MarkdownHeaderTextSplitter makes of a file
SplitText(file) ==
    CASE file = "a.pdf" -> <<"tcp", "ip">>
      [] file = "b.pdf" -> <<"route">>
      [] OTHER -> <<>>

\* a chunk id without the subject code
ChunkIdNoSubject(sub_code, pdf_filename, i) == <<"", pdf_filename, "chunk", i>>

ChunkId(sub_code, pdf_filename, i) == <<sub_code, pdf_filename, "chunk", i>>

Document(sub_code, pdf_filename, i, page_content) ==
    [page_content |-> page_content,
     source |-> pdf_filename,
     chunk_id |-> ChunkId(sub_code, pdf_filename, i),
     subject_code |-> sub_code]

\* pdf_2_md without the counter of enumerate: every chunk numbered 0
pdf_2_mdNoSequence(file, sub_code) ==
    IF Unparseable(file)
    THEN [ok |-> FALSE, docs |-> <<>>]
    ELSE [ok |-> TRUE,
          docs |-> [i \in 1..Len(SplitText(file)) |->
                      Document(sub_code, file, 0, SplitText(file)[i])]]

\* pdf_2_md: None (ok = FALSE) when the PDF cannot be parsed, else the
\* chunks of the file numbered from 0 in split order
pdf_2_md(file, sub_code) ==
    IF Unparseable(file)
    THEN [ok |-> FALSE, docs |-> <<>>]
    ELSE [ok |-> TRUE,
          docs |-> [i \in 1..Len(SplitText(file)) |->
                      Document(sub_code, file, i - 1, SplitText(file)[i])]]

(***************************************************************************)
(* State.                                                                  *)
(***************************************************************************)
VARIABLES
    all_documents,       \* the in-memory corpus
    ensemble_retriever,  \* [set, bm25, vec]: the retrievers it was built from
    bm25_retriever,      \* [set, docs]: the documents the BM25 index was built from
    vector_retriever,    \* TRUE when set
    vector_store,        \* TRUE when set (a handle on the vector_db directory)
    pkl,                 \* all_documents.pkl: [st, docs]
    vdb_dir,             \* the directory vector_db exists
    vector_db,           \* the entries of the Chroma collection, in insertion order
    th,                  \* per executor thread: position and locals
    sources,             \* scraper.sources: subject code -> source page, in memory
    notes_link,          \* scraper.notes_link: subject code -> notes list, in memory
    sources_json,        \* the content of sources.json
    notes_link_json,     \* the content of notes_link.json
    notes,               \* notes/: subject code -> the PDF files downloaded to it
    upd                  \* the update the bot is handling: handler position and locals

vars == <<all_documents, ensemble_retriever, bm25_retriever, vector_retriever,
          vector_store, pkl, vdb_dir, vector_db, th,
          sources, notes_link, sources_json, notes_link_json, notes, upd>>

mem == <<all_documents, ensemble_retriever, bm25_retriever, vector_retriever, vector_store>>
disk == <<pkl, vdb_dir, vector_db>>

\* the state of scraper.py and of the bot's handlers
scraper == <<sources, notes_link, sources_json, notes_link_json, notes>>

NoBM25 == [set |-> FALSE, docs |-> <<>>]
NoEnsemble == [set |-> FALSE, bm25 |-> NoBM25, vec |-> FALSE]

Idle == [pc |-> "idle", op |-> "none", files |-> <<>>, dirs |-> <<>>, sub_code |-> "none",
         documents |-> <<>>, total_files |-> 0, processed_files |-> 0,
         raised |-> "none",
         via |-> "none", retrieved |-> <<>>, context |-> <<>>]

\* no update is being handled
NoUpdate == [pc |-> "idle", op |-> "none"]

\* scraper.py lines 77-79 on a machine without sources.json and
\* notes_link.json: load_sources returns {} for a missing file.  A
\* dictionary is a function on the subject codes; "none" and <<>> stand for
\* a key that is not in it (get_notes records non-empty lists only).
\* notes[c] is the directory notes/<c>: whether it exists and the PDF
\* files the bot has put into it.
InitScraper ==
    /\ sources = [c \in SubjectCodes |-> "none"]
    /\ notes_link = [c \in SubjectCodes |-> <<>>]
    /\ sources_json = [c \in SubjectCodes |-> "none"]
    /\ notes_link_json = [c \in SubjectCodes |-> <<>>]
    /\ notes = [c \in SubjectCodes |-> [dir |-> FALSE, files |-> {}]]

\* the state of a process that has just been started, before the module
\* start-up code runs (rag.py lines 47-51), on a machine with no snapshot
Init ==
    /\ all_documents = <<>>
    /\ ensemble_retriever = NoEnsemble
    /\ bm25_retriever = NoBM25
    /\ vector_retriever = FALSE
    /\ vector_store = FALSE
    /\ pkl = [st |-> "absent", docs |-> <<>>]
    /\ vdb_dir = FALSE
    /\ vector_db = <<>>
    /\ th = [t \in Threads |-> Idle]
    /\ InitScraper
    /\ upd = NoUpdate

\* a step of an executor thread inside rag.py: scraper.py and the handlers
\* of the bot are not touched by it
Set(t, r) ==
    /\ th' = [th EXCEPT ![t] = r]
    /\ UNCHANGED <<scraper, upd>>

Goto(t, p) == Set(t, [th[t] EXCEPT !.pc = p])

(***************************************************************************)
(* The loops of add_to_db and recreate_vector_dbs_from_notes.  The notes   *)
(* are read only, so the part of a loop between two calls of add_to_vdb    *)
(* touches nothing but locals and is taken as one step.                    *)
(***************************************************************************)
\* from the head of the file list on: the next file that pdf_2_md turns
\* into a non-empty list of documents is handed to add_to_vdb, the files
\* before it are skipped ("if documents: ... else: ..."); when the files
\* of a directory are used up the next subject directory is entered, and
\* the function returns after the last one
RECURSIVE Loop(_)
Loop(r) ==
    IF r.files # <<>>
    THEN LET documents == pdf_2_md(Head(r.files), r.sub_code).docs
         IN IF documents # <<>>
            THEN [r EXCEPT !.pc = "vdb_extend", !.documents = documents]
            ELSE Loop([r EXCEPT !.files = Tail(r.files)])
    ELSE IF r.dirs # <<>>
    THEN LET pdf_files == Glob(Head(r.dirs))
         IN Loop([r EXCEPT !.sub_code = Head(r.dirs), !.dirs = Tail(r.dirs),
                           !.files = pdf_files,
                           !.total_files = r.total_files + Len(pdf_files)])
    ELSE [r EXCEPT !.pc = "done"]

(***************************************************************************)
(* add_to_db(sub_code)                                                     *)
(***************************************************************************)
\* the directory notes/<sub_code> does not exist: add_to_db returns at once
AddToDbMissing(t, sub_code) ==
    /\ th[t].pc = "idle"
    /\ ~PathExists(sub_code)
    /\ Set(t, [Idle EXCEPT !.pc = "done", !.op = "add_to_db", !.sub_code = sub_code])
    /\ UNCHANGED <<mem, disk>>

AddToDbCall(t, sub_code) ==
    /\ th[t].pc = "idle"
    /\ PathExists(sub_code)
    /\ Set(t, Loop([Idle EXCEPT !.op = "add_to_db", !.sub_code = sub_code,
                                !.files = Glob(sub_code)]))
    /\ UNCHANGED <<mem, disk>>

\* the executor thread is free again after the call has returned or raised
Finish(t) ==
    /\ th[t].pc = "done"
    /\ Set(t, Idle)
    /\ UNCHANGED <<mem, disk>>

(***************************************************************************)
(* add_to_vdb(documents)                                                   *)
(***************************************************************************)
\* an exception leaves add_to_vdb: add_to_db lets it escape to its caller,
\* the loop of recreate_vector_dbs_from_notes catches it (line 326) and
\* goes on with the next file
Raise(t, what) ==
    IF th[t].op = "recreate"
    THEN Set(t, Loop([th[t] EXCEPT !.files = Tail(th[t].files),
                                   !.documents = <<>>, !.raised = what]))
    ELSE Set(t, [th[t] EXCEPT !.pc = "done", !.documents = <<>>, !.raised = what])

\* add_to_vdb putting the new documents in front of the corpus
VdbExtendFront(t) ==
    /\ th[t].pc = "vdb_extend"
    /\ Len(all_documents) + Len(th[t].documents) <= MaxCorpus
    /\ all_documents' = th[t].documents \o all_documents
    /\ Goto(t, "vdb_add")
    /\ UNCHANGED <<ensemble_retriever, bm25_retriever, vector_retriever, vector_store, disk>>

\* line 137: all_documents.extend(documents)
VdbExtend(t) ==
    /\ th[t].pc = "vdb_extend"
    /\ Len(all_documents) + Len(th[t].documents) <= MaxCorpus
    /\ all_documents' = all_documents \o th[t].documents
    /\ Goto(t, "vdb_add")
    /\ UNCHANGED <<ensemble_retriever, bm25_retriever, vector_retriever, vector_store, disk>>

\* add_to_vdb without its vector step: the documents never reach the store
VdbAddSkipped(t) ==
    /\ th[t].pc = "vdb_add"
    /\ Goto(t, "save_open")
    /\ UNCHANGED <<mem, disk>>

\* lines 140-142: "if vector_store is not None: vector_store.add_documents(documents)"
VdbAdd(t) ==
    /\ th[t].pc = "vdb_add"
    /\ IF vector_store
       THEN /\ Len(vector_db) + Len(th[t].documents) <= MaxVectors
            /\ vector_db' = vector_db \o th[t].documents
            /\ vdb_dir' = TRUE
       ELSE UNCHANGED <<vector_db, vdb_dir>>
    /\ Goto(t, "save_open")
    /\ UNCHANGED <<mem, pkl>>

\* embedding or writing the new documents fails: add_documents raises
VdbAddFails(t) ==
    /\ th[t].pc = "vdb_add"
    /\ vector_store
    /\ Raise(t, "add_documents")
    /\ UNCHANGED <<mem, disk>>

\* save_documents, line 100: open("all_documents.pkl", "wb") truncates the
\* file; docs keeps the last complete content, which can no longer be read
SaveOpen(t) ==
    /\ th[t].pc = "save_open"
    /\ pkl' = [pkl EXCEPT !.st = "partial"]
    /\ Goto(t, "save_dump")
    /\ UNCHANGED <<mem, vdb_dir, vector_db>>

\* save_documents, line 101: pickle.dump(all_documents, f) and close
SaveDump(t) ==
    /\ th[t].pc = "save_dump"
    /\ pkl' = [st |-> "complete", docs |-> all_documents]
    /\ Goto(t, "build_check")
    /\ UNCHANGED <<mem, vdb_dir, vector_db>>

\* the write fails: the truncated file stays and the error leaves add_to_vdb
SaveDumpFails(t) ==
    /\ th[t].pc = "save_dump"
    /\ Raise(t, "save_documents")
    /\ UNCHANGED <<mem, disk>>

(***************************************************************************)
(* build_ensemble_retriever(), as called from add_to_vdb                   *)
(***************************************************************************)
\* lines 56-58: "if not all_documents: return None"
BuildCheck(t) ==
    /\ th[t].pc = "build_check"
    /\ IF all_documents = <<>>
       THEN Goto(t, "vdb_ret")
       ELSE Goto(t, "build_bm25")
    /\ UNCHANGED <<mem, disk>>

\* lines 63-66: BM25Retriever.from_documents(all_documents, k=10) copies the
\* documents into a new index; on an empty list it raises (caught, line 93)
BuildBM25(t) ==
    /\ th[t].pc = "build_bm25"
    /\ IF all_documents = <<>>
       THEN /\ UNCHANGED bm25_retriever
            /\ Goto(t, "vdb_ret")
       ELSE /\ bm25_retriever' = [set |-> TRUE, docs |-> all_documents]
            /\ Goto(t, "build_chroma")
    /\ UNCHANGED <<all_documents, ensemble_retriever, vector_retriever, vector_store, disk>>

\* lines 69-78: Chroma.from_documents(documents=all_documents,
\* persist_directory="vector_db") opens the collection of the directory and
\* adds every document of the corpus to it under a fresh id
BuildChroma(t) ==
    /\ th[t].pc = "build_chroma"
    /\ Len(vector_db) + Len(all_documents) <= MaxVectors
    /\ vector_db' = vector_db \o all_documents
    /\ vdb_dir' = TRUE
    /\ vector_store' = TRUE
    /\ Goto(t, "build_vr")
    /\ UNCHANGED <<all_documents, ensemble_retriever, bm25_retriever, vector_retriever, pkl>>

\* the embedding model or Chroma raises: caught at line 93, returns None
BuildChromaFails(t) ==
    /\ th[t].pc = "build_chroma"
    /\ Goto(t, "vdb_ret")
    /\ UNCHANGED <<mem, disk>>

\* lines 80-82: vector_retriever = vector_store.as_retriever(...); on None
\* the AttributeError is caught at line 93
BuildVectorRetriever(t) ==
    /\ th[t].pc = "build_vr"
    /\ IF vector_store
       THEN /\ vector_retriever' = TRUE
            /\ Goto(t, "build_ens")
       ELSE /\ UNCHANGED vector_retriever
            /\ Goto(t, "vdb_ret")
    /\ UNCHANGED <<all_documents, ensemble_retriever, bm25_retriever, vector_store, disk>>

\* lines 84-88: EnsembleRetriever(retrievers=[bm25_retriever, vector_retriever], ...);
\* a None among the retrievers fails validation, caught at line 93
BuildEnsemble(t) ==
    /\ th[t].pc = "build_ens"
    /\ IF bm25_retriever.set /\ vector_retriever
       THEN ensemble_retriever' = [set |-> TRUE, bm25 |-> bm25_retriever, vec |-> TRUE]
       ELSE UNCHANGED ensemble_retriever
    /\ Goto(t, "vdb_ret")
    /\ UNCHANGED <<all_documents, bm25_retriever, vector_retriever, vector_store, disk>>

\* line 150 and the return of add_to_vdb into the loop that called it
VdbReturn(t) ==
    /\ th[t].pc = "vdb_ret"
    /\ Set(t, Loop([th[t] EXCEPT !.files = Tail(th[t].files), !.documents = <<>>,
                                 !.processed_files =
                                     IF th[t].op = "recreate"
                                     THEN th[t].processed_files + 1
                                     ELSE th[t].processed_files]))
    /\ UNCHANGED <<mem, disk>>

(***************************************************************************)
(* clear_all_vector_dbs()                                                  *)
(***************************************************************************)
\* lines 266-269: the four index references are reset
ClearRefs ==
    /\ ensemble_retriever' = NoEnsemble
    /\ bm25_retriever' = NoBM25
    /\ vector_retriever' = FALSE
    /\ vector_store' = FALSE
    /\ UNCHANGED <<all_documents, disk>>

ClearCall(t) ==
    /\ th[t].pc = "idle"
    /\ ClearRefs
    /\ Set(t, [Idle EXCEPT !.pc = "clr_docs", !.op = "clear"])

\* line 270: all_documents = []
ClearDocs(t) ==
    /\ th[t].pc = "clr_docs"
    /\ all_documents' = <<>>
    /\ Goto(t, "clr_vdb")
    /\ UNCHANGED <<ensemble_retriever, bm25_retriever, vector_retriever, vector_store, disk>>

\* lines 273-280: shutil.rmtree("vector_db") when the directory exists
ClearVdb(t) ==
    /\ th[t].pc = "clr_vdb"
    /\ vdb_dir' = FALSE
    /\ vector_db' = <<>>
    /\ Goto(t, "clr_pkl")
    /\ UNCHANGED <<mem, pkl>>

\* rmtree raises: "Error deleting vector_db" is printed, the directory stays
ClearVdbFails(t) ==
    /\ th[t].pc = "clr_vdb"
    /\ vdb_dir
    /\ Goto(t, "clr_pkl")
    /\ UNCHANGED <<mem, disk>>

\* after the last statement of clear_all_vector_dbs: back to the caller,
\* which for recreate_vector_dbs_from_notes starts the loop over notes/
ClearDone(t) ==
    IF th[t].op = "recreate"
    THEN Set(t, Loop([th[t] EXCEPT !.dirs = NotesDir]))
    ELSE Set(t, [th[t] EXCEPT !.pc = "done"])

\* lines 283-289: unlink all_documents.pkl when it exists
ClearPkl(t) ==
    /\ th[t].pc = "clr_pkl"
    /\ pkl' = [st |-> "absent", docs |-> <<>>]
    /\ ClearDone(t)
    /\ UNCHANGED <<mem, vdb_dir, vector_db>>

\* unlink raises: "Error deleting document cache" is printed, the file stays
ClearPklFails(t) ==
    /\ th[t].pc = "clr_pkl"
    /\ pkl.st # "absent"
    /\ ClearDone(t)
    /\ UNCHANGED <<mem, disk>>

(***************************************************************************)
(* recreate_vector_dbs_from_notes()                                        *)
(***************************************************************************)
\* line 296 calls clear_all_vector_dbs; the loop over notes/ follows it
RecreateCall(t) ==
    /\ th[t].pc = "idle"
    /\ ClearRefs
    /\ Set(t, [Idle EXCEPT !.pc = "clr_docs", !.op = "recreate"])

(***************************************************************************)
(* Retrieval: BM25Retriever, the Chroma retriever and EnsembleRetriever.   *)
(***************************************************************************)
K == 10

Queries == {"explain IP addressing"}

\* the BM25 score of a chunk text for a query (term statistics)
LexScore(query, page_content) ==
    CASE page_content = "tcp" -> 3
      [] page_content = "ip" -> 2
      [] OTHER -> 1

\* the embedding similarity of a chunk text to a query
VecScore(query, page_content) ==
    CASE page_content = "ip" -> 3
      [] page_content = "tcp" -> 2
      [] OTHER -> 1

Min(a, b) == IF a <= b THEN a ELSE b

\* the positions S of a list by descending key; equal keys keep list order,
\* or the reverse of it when later_first
RECURSIVE Order(_, _, _)
Order(S, key, later_first) ==
    IF S = {}
    THEN <<>>
    ELSE LET b == CHOOSE i \in S : \A j \in S :
                      \/ key[i] > key[j]
                      \/ key[i] = key[j] /\ (IF later_first THEN i >= j ELSE i <= j)
         IN <<b>> \o Order(S \ {b}, key, later_first)

TopK(docs, key, k, later_first) ==
    LET ord == Order(1..Len(docs), key, later_first)
    IN [i \in 1..Min(k, Len(docs)) |-> docs[ord[i]]]

\* BM25Retriever with k=10: rank_bm25 takes the reversed ascending argsort
\* of the scores, so of two chunks with the same score the later one leads
BM25Search(docs, query) ==
    TopK(docs, [i \in 1..Len(docs) |-> LexScore(query, docs[i].page_content)], K, TRUE)

\* similarity search of the Chroma collection with k=10
SimilaritySearch(collection, query) ==
    TopK(collection,
         [i \in 1..Len(collection) |-> VecScore(query, collection[i].page_content)],
         K, FALSE)

Weight == 5
RankConstant == 60

\* weight / (rank + c) of the weighted reciprocal rank fusion, in fixed point
RECURSIVE RRFList(_, _, _)
RRFList(doc_list, rank, page_content) ==
    IF rank > Len(doc_list)
    THEN 0
    ELSE (IF doc_list[rank].page_content = page_content
          THEN (Weight * 100000) \div (rank + RankConstant)
          ELSE 0) + RRFList(doc_list, rank + 1, page_content)

rrf_score(doc_lists, page_content) ==
    RRFList(doc_lists[1], 1, page_content) + RRFList(doc_lists[2], 1, page_content)

\* unique_by_key: the first document of each page_content, in list order
RECURSIVE UniqueByKey(_, _)
UniqueByKey(docs, seen) ==
    IF docs = <<>>
    THEN <<>>
    ELSE IF Head(docs).page_content \in seen
    THEN UniqueByKey(Tail(docs), seen)
    ELSE <<Head(docs)>> \o UniqueByKey(Tail(docs), seen \cup {Head(docs).page_content})

\* EnsembleRetriever.get_relevant_documents: both retrievers are queried,
\* the chained results are made unique by page_content and sorted (stably)
\* by descending fused score
EnsembleSearch(ens, collection, query) ==
    LET doc_lists == <<BM25Search(ens.bm25.docs, query), SimilaritySearch(collection, query)>>
        all_docs == UniqueByKey(doc_lists[1] \o doc_lists[2], {})
    IN TopK(all_docs,
            [i \in 1..Len(all_docs) |-> rrf_score(doc_lists, all_docs[i].page_content)],
            Len(all_docs), FALSE)

\* lines 165-169 and 183-186: the context string, one piece per document
Context(docs) == [i \in 1..Len(docs) |-> docs[i].page_content]

\* get_context without its fallback: an error of the ensemble retriever
\* ends the retrieval
RetrieveFromNoFallback(ens, store, collection, query, ensemble_ok, vector_ok) ==
    IF ens.set
    THEN IF ensemble_ok /\ vector_ok
         THEN [via |-> "ensemble", docs |-> EnsembleSearch(ens, collection, query)]
         ELSE [via |-> "none", docs |-> <<>>]
    ELSE IF store /\ vector_ok
    THEN [via |-> "vector", docs |-> SimilaritySearch(collection, query)]
    ELSE [via |-> "none", docs |-> <<>>]

\* lines 161-195: what get_context retrieves from the retriever ens, the
\* vector store (set or not) and the collection behind both: through the
\* ensemble retriever, else (none set, or it raised) through the vector
\* store, else nothing
RetrieveFrom(ens, store, collection, query, ensemble_ok, vector_ok) ==
    IF ens.set /\ ensemble_ok /\ vector_ok
    THEN [via |-> "ensemble", docs |-> EnsembleSearch(ens, collection, query)]
    ELSE IF store /\ vector_ok
    THEN [via |-> "vector", docs |-> SimilaritySearch(collection, query)]
    ELSE [via |-> "none", docs |-> <<>>]

Retrieve(query, ensemble_ok, vector_ok) ==
    RetrieveFrom(ensemble_retriever, vector_store, vector_db, query, ensemble_ok, vector_ok)

(***************************************************************************)
(* get_context(query)                                                      *)
(***************************************************************************)
Returned(t, r) ==
    Set(t, [Idle EXCEPT !.pc = "done", !.op = "get_context", !.via = r.via,
                        !.retrieved = r.docs, !.context = Context(r.docs)])

GetContext(t, query) ==
    /\ th[t].pc = "idle"
    /\ Returned(t, Retrieve(query, TRUE, TRUE))
    /\ UNCHANGED <<mem, disk>>

\* the BM25 retriever raises inside the ensemble retriever (line 174): the
\* vector store is tried
GetContextEnsembleFails(t, query) ==
    /\ th[t].pc = "idle"
    /\ ensemble_retriever.set
    /\ Returned(t, Retrieve(query, FALSE, TRUE))
    /\ UNCHANGED <<mem, disk>>

\* the vector store raises as well (line 191)
GetContextVectorFails(t, query) ==
    /\ th[t].pc = "idle"
    /\ vector_store
    /\ Returned(t, Retrieve(query, FALSE, FALSE))
    /\ UNCHANGED <<mem, disk>>

(***************************************************************************)
(* Process restart: the process ends wherever its threads are and a new    *)
(* one imports the module, running lines 47-51 and the start-up of lines   *)
(* 336-339: load_documents(), then build_ensemble_retriever() if it        *)
(* returned True.                                                          *)
(***************************************************************************)
StartUp(reload_ok, chroma_ok) ==
    LET readable == pkl.st = "complete"
        docs == IF readable THEN pkl.docs ELSE <<>>
        reload == readable /\ vdb_dir
        loaded == readable /\ (reload => reload_ok)
        build == loaded /\ docs # <<>>
        built == build /\ chroma_ok
    IN /\ built => Len(vector_db) + Len(docs) <= MaxVectors
       /\ all_documents' = docs
       /\ bm25_retriever' = IF build THEN [set |-> TRUE, docs |-> docs] ELSE NoBM25
       /\ vector_store' = ((reload /\ reload_ok) \/ built)
       /\ vector_retriever' = built
       /\ ensemble_retriever' =
              IF built
              THEN [set |-> TRUE, bm25 |-> [set |-> TRUE, docs |-> docs], vec |-> TRUE]
              ELSE NoEnsemble
       /\ vector_db' = IF built THEN vector_db \o docs ELSE vector_db
       /\ vdb_dir' = (vdb_dir \/ built)
       /\ th' = [t \in Threads |-> Idle]
       /\ UNCHANGED pkl

Restart ==
    /\ pkl.st \in {"absent", "partial", "complete"}
    /\ StartUp(TRUE, TRUE)
    /\ UNCHANGED <<scraper, upd>>

\* Chroma(persist_directory="vector_db") raises in load_documents (line 128)
RestartReloadFails ==
    /\ pkl.st = "complete"
    /\ vdb_dir
    /\ StartUp(FALSE, TRUE)
    /\ UNCHANGED <<scraper, upd>>

\* Chroma.from_documents raises in build_ensemble_retriever (line 93)
RestartBuildFails ==
    /\ pkl.st = "complete"
    /\ pkl.docs # <<>>
    /\ StartUp(TRUE, FALSE)
    /\ UNCHANGED <<scraper, upd>>

(***************************************************************************)
(* Specifications.                                                         *)
(***************************************************************************)
\* the steps inside add_to_vdb, build_ensemble_retriever and
\* clear_all_vector_dbs when no library or file-system call fails
Work(t) ==
    \/ VdbExtend(t)
    \/ VdbAdd(t)
    \/ SaveOpen(t)
    \/ SaveDump(t)
    \/ BuildCheck(t)
    \/ BuildBM25(t)
    \/ BuildChroma(t)
    \/ BuildVectorRetriever(t)
    \/ BuildEnsemble(t)
    \/ VdbReturn(t)
    \/ ClearDocs(t)
    \/ ClearVdb(t)
    \/ ClearPkl(t)
    \/ Finish(t)

\* the steps in which a library or file-system call raises
Fail(t) ==
    \/ VdbAddFails(t)
    \/ SaveDumpFails(t)
    \/ BuildChromaFails(t)
    \/ ClearVdbFails(t)
    \/ ClearPklFails(t)

\* one process, one thread calling into the module
Next ==
    \/ \E s \in SubjectCodes : AddToDbMissing("t1", s)
    \/ \E s \in SubjectCodes : AddToDbCall("t1", s)
    \/ ClearCall("t1")
    \/ RecreateCall("t1")
    \/ \E q \in Queries : GetContext("t1", q)
    \/ \E q \in Queries : GetContextEnsembleFails("t1", q)
    \/ \E q \in Queries : GetContextVectorFails("t1", q)
    \/ Work("t1")
    \/ Fail("t1")
    \/ Restart
    \/ RestartReloadFails
    \/ RestartBuildFails

Spec == Init /\ [][Next]_vars

\* two executor threads: t1 runs add_to_db and clear_all_vector_dbs, t2
\* runs add_to_db and get_context
NextConc ==
    \/ \E t \in Threads, s \in SubjectCodes : AddToDbCall(t, s)
    \/ ClearCall("t1")
    \/ \E q \in Queries : GetContext("t2", q)
    \/ \E t \in Threads : Work(t)

SpecConc == Init /\ [][NextConc]_vars

\* one thread, no call fails, and the process is restarted only between
\* operations
Quiescent == \A t \in Threads : th[t].pc \in {"idle", "done"}

GracefulRestart ==
    /\ Quiescent
    /\ Restart

NextNoFault ==
    \/ \E s \in SubjectCodes : AddToDbMissing("t1", s)
    \/ \E s \in SubjectCodes : AddToDbCall("t1", s)
    \/ ClearCall("t1")
    \/ RecreateCall("t1")
    \/ \E q \in Queries : GetContext("t1", q)
    \/ Work("t1")
    \/ GracefulRestart

SpecNoFault == Init /\ [][NextNoFault]_vars

(***************************************************************************)
(* Properties.                                                             *)
(***************************************************************************)
Ids(docs) == {docs[i].chunk_id : i \in 1..Len(docs)}

\* C1: no two chunks of the in-memory corpus have the same chunk_id
C1_UniqueChunkIds ==
    \A i, j \in 1..Len(all_documents) :
        i # j => all_documents[i].chunk_id # all_documents[j].chunk_id

\* C2: ingesting a document whose chunks are all in the corpus already
\* leaves the corpus as it was
C2_IdempotentIngestion ==
    [][\A t \in Threads :
          (VdbExtend(t) /\ Ids(th[t].documents) \subseteq Ids(all_documents))
              => all_documents' = all_documents]_vars

\* the positions of a thread between its first and its last change of the
\* store in add_to_vdb or clear_all_vector_dbs
InStore(t) ==
    th[t].pc \in {"vdb_add", "save_open", "save_dump", "build_check", "build_bm25",
                  "build_chroma", "build_vr", "build_ens", "clr_docs", "clr_vdb", "clr_pkl"}

\* C3: a query through the ensemble retriever reads a Lexical Index and a
\* Vector Index that hold the same chunks
C3_SnapshotIsolation ==
    [][\A t \in Threads, q \in Queries :
          (GetContext(t, q) /\ ensemble_retriever.set)
              => Ids(ensemble_retriever.bm25.docs) = Ids(vector_db)]_vars

\* C4: at most one add, clear or rebuild is at work on the store
C4_SingleWriter == Cardinality({t \in Threads : InStore(t)}) <= 1

\* C5: the start-up load never finds a partially written snapshot file
C5_LoadNeverReadsPartial ==
    [][(Restart \/ RestartReloadFails \/ RestartBuildFails) => pkl.st # "partial"]_vars

\* C6: when embedding the documents or adding them to the Vector Index
\* fails, the documents are taken out of the corpus again and nothing
\* else of the store changes
C6_FailedAddLeavesStoreUnchanged ==
    [][\A t \in Threads :
          (VdbAddFails(t) \/ BuildChromaFails(t))
              => /\ all_documents' \o th[t].documents = all_documents
                 /\ Ids(th[t].documents) \cap Ids(bm25_retriever'.docs) = {}
                 /\ UNCHANGED disk]_vars

\* C7: when writing the snapshot fails, the add fails and the in-memory
\* corpus is again the last completely written snapshot
C7_SaveFailureRollsBack ==
    [][\A t \in Threads :
          SaveDumpFails(t)
              => /\ th'[t].raised = "save_documents"
                 /\ all_documents' = pkl.docs]_vars

\* C8: between operations the Vector Index holds one entry per corpus chunk
C8_OneVectorPerChunk ==
    Quiescent => Len(vector_db) = Len(all_documents)

\* the chunk ids of the first five of a list of retrieved documents
Top5(docs) == [i \in 1..Min(5, Len(docs)) |-> docs[i].chunk_id]

\* C9: a restart between operations keeps the chunk count and the top-5
\* results of every query
C9_RoundTrip ==
    [][GracefulRestart
          => /\ Len(all_documents') = Len(all_documents)
             /\ \A q \in Queries :
                    Top5(RetrieveFrom(ensemble_retriever', vector_store', vector_db',
                                      q, TRUE, TRUE).docs)
                        = Top5(Retrieve(q, TRUE, TRUE).docs)]_vars

\* C10: when add_to_vdb returns, a query retrieves every chunk it added
C10_AddedChunksRetrievable ==
    \A t \in Threads, q \in Queries :
        th[t].pc = "vdb_ret"
            => Ids(th[t].documents) \subseteq Ids(Retrieve(q, TRUE, TRUE).docs)

\* C11: when add_to_vdb returns, the BM25 index inside the active ensemble
\* retriever was built from the whole current corpus
C11_LexicalIndexIsWholeCorpus ==
    \A t \in Threads :
        th[t].pc = "vdb_ret"
            => /\ ensemble_retriever.set
               /\ ensemble_retriever.bm25.docs = all_documents

\* C12: build_ensemble_retriever replaces no reference a query can read
\* before its construction has succeeded, so a build that fails part-way
\* leaves ensemble_retriever, bm25_retriever and vector_store as they were
C12_BuildAside ==
    [][\A t \in Threads :
          (BuildBM25(t) \/ BuildChroma(t) \/ BuildChromaFails(t) \/ BuildVectorRetriever(t))
              => UNCHANGED <<ensemble_retriever, bm25_retriever, vector_store>>]_vars

\* the sequence s ends with the sequence d
EndsWith(s, d) ==
    /\ Len(d) <= Len(s)
    /\ SubSeq(s, Len(s) - Len(d) + 1, Len(s)) = d

\* C13 as stated: the updated snapshot is persisted before the documents are
\* added to the Vector Index
C13_PersistBeforeVectorAdd ==
    [][\A t \in Threads :
          (VdbAdd(t) /\ vector_store)
              => (pkl.st = "complete" /\ pkl.docs = all_documents)]_vars

\* C13 amended: add_to_vdb appends to the corpus, then adds to the vector
\* store when there is one, then saves the snapshot, then rebuilds the BM25
\* index from the whole corpus, then the vector index: each step finds the
\* effects of the steps before it
C13_EffectsInOrder ==
    [][\A t \in Threads :
          /\ (VdbAdd(t) \/ SaveOpen(t))
                => EndsWith(all_documents, th[t].documents)
          /\ (SaveOpen(t) /\ vector_store)
                => EndsWith(vector_db, th[t].documents)
          /\ BuildBM25(t)
                => /\ pkl = [st |-> "complete", docs |-> all_documents]
                   /\ EndsWith(all_documents, th[t].documents)
          /\ BuildChroma(t)
                => bm25_retriever = [set |-> TRUE, docs |-> all_documents]]_vars

\* an add on an existing vector store has reached its last effect
C13_Witness ==
    \E t \in Threads :
        /\ th[t].pc = "build_chroma"
        /\ vector_store
        /\ EndsWith(vector_db, th[t].documents)
        /\ pkl = [st |-> "complete", docs |-> all_documents]
        /\ bm25_retriever.docs = all_documents

\* C14: a start-up that finds no snapshot leaves the corpus empty and every
\* index reference unset, and the add that then creates the indexes on the
\* empty store leaves in both exactly its own chunks: the persistent
\* collection holds no vector of an earlier run
C14_FirstAddCreatesBothIndexes ==
    [][/\ (Restart /\ pkl.st = "absent")
            => /\ all_documents' = <<>>
               /\ ensemble_retriever' = NoEnsemble
               /\ bm25_retriever' = NoBM25
               /\ ~vector_store'
       /\ \A t \in Threads :
            (BuildEnsemble(t) /\ all_documents = th[t].documents)
                => /\ ensemble_retriever'.bm25.docs = th[t].documents
                   /\ vector_db' = th[t].documents]_vars

\* C15: when clear_all_vector_dbs has returned, the snapshot file and the
\* vector_db directory are gone, the corpus is empty and every index
\* reference is unset, so a restart at that point loads an empty corpus
C15_ClearRemovesEverything ==
    \A t \in Threads :
        (th[t].op = "clear" /\ th[t].pc = "done")
            => /\ pkl.st = "absent"
               /\ ~vdb_dir
               /\ vector_db = <<>>
               /\ all_documents = <<>>
               /\ ensemble_retriever = NoEnsemble
               /\ bm25_retriever = NoBM25
               /\ ~vector_retriever
               /\ ~vector_store

\* the PDF files that have a chunk in the corpus
SourcesIn(docs) == {docs[i].source : i \in 1..Len(docs)}

\* the number of PDF files under notes/
RECURSIVE CountFiles(_)
CountFiles(dirs) ==
    IF dirs = <<>> THEN 0 ELSE Len(Glob(Head(dirs))) + CountFiles(Tail(dirs))

\* C16: when recreate_vector_dbs_from_notes has returned, every PDF under
\* notes/ was attempted, processed_files <= total_files, and
\* processed_files is exactly the number of PDF files whose chunks are in
\* the corpus
C16_RecreateCounts ==
    \A t \in Threads :
        (th[t].op = "recreate" /\ th[t].pc = "done")
            => /\ th[t].files = <<>> /\ th[t].dirs = <<>>
               /\ th[t].total_files = CountFiles(NotesDir)
               /\ th[t].processed_files <= th[t].total_files
               /\ th[t].processed_files = Cardinality(SourcesIn(all_documents))

\* C17: a batch that has ended, whether add_to_db over a subject directory
\* or the loop of recreate_vector_dbs_from_notes, has attempted every one
\* of its files: when it ended on a failure, no file was left after the
\* one that failed
C17_BatchNeverAborts ==
    \A t \in Threads :
        (th[t].op \in {"add_to_db", "recreate"} /\ th[t].pc = "done")
            => /\ th[t].dirs = <<>>
               /\ \/ th[t].files = <<>>
                  \/ th[t].raised # "none" /\ Tail(th[t].files) = <<>>

\* C18: when the BM25 retriever raises inside the ensemble retriever,
\* get_context returns without raising, and what it returns is the result
\* of the similarity search of the vector store for that query
C18_LexicalFailureFallsBack ==
    [][\A t \in Threads, q \in Queries :
          GetContextEnsembleFails(t, q)
              => /\ th'[t].pc = "done"
                 /\ th'[t].raised = "none"
                 /\ th'[t].via = "vector"
                 /\ th'[t].retrieved = SimilaritySearch(vector_db, q)
                 /\ th'[t].context = Context(SimilaritySearch(vector_db, q))]_vars

\* a query on a store with an ensemble retriever was answered by the
\* vector store, with results
C18_Witness ==
    \E t \in Threads :
        /\ th[t].op = "get_context"
        /\ ensemble_retriever.set
        /\ th[t].via = "vector"
        /\ th[t].retrieved # <<>>

\* C19: when neither the ensemble retriever nor the vector store can
\* answer, get_context returns something other than the empty string
C19_UnavailableIsExplicit ==
    \A t \in Threads :
        (th[t].op = "get_context" /\ th[t].pc = "done" /\ th[t].via = "none")
            => th[t].context # <<>>

(***************************************************************************)
(* Retrieval over any file: the store as the first add_to_vdb of one PDF   *)
(* leaves it, for every order the chunk texts can have in the file.        *)
(***************************************************************************)
FusionTexts == {"tcp", "ip", "route", "dns"}

\* what MarkdownHeaderTextSplitter can make of a file: distinct texts in
\* any order
FusionSplits ==
    {s \in UNION {[1..n -> FusionTexts] : n \in 1..Min(MaxCorpus, Cardinality(FusionTexts))} :
        \A i, j \in DOMAIN s : i # j => s[i] # s[j]}

\* the store after add_to_vdb(pdf_2_md("notes/S1/c.pdf", "S1")) on an empty
\* store: corpus, snapshot, BM25 index and collection hold the chunks of
\* the file, and the ensemble retriever is built
InitFusion ==
    \E s \in FusionSplits :
        LET docs == [i \in 1..Len(s) |-> Document("S1", "c.pdf", i - 1, s[i])]
        IN /\ all_documents = docs
           /\ bm25_retriever = [set |-> TRUE, docs |-> docs]
           /\ vector_store = TRUE
           /\ vector_retriever = TRUE
           /\ ensemble_retriever =
                  [set |-> TRUE, bm25 |-> [set |-> TRUE, docs |-> docs], vec |-> TRUE]
           /\ pkl = [st |-> "complete", docs |-> docs]
           /\ vdb_dir = TRUE
           /\ vector_db = docs
           /\ th = [t \in Threads |-> Idle]
           /\ InitScraper
           /\ upd = NoUpdate

\* queries on that store, answered through the ensemble retriever or, when
\* it raises, through the vector store
NextFusion ==
    \/ \E t \in Threads, q \in Queries : GetContext(t, q)
    \/ \E t \in Threads, q \in Queries : GetContextEnsembleFails(t, q)
    \/ \E t \in Threads : Finish(t)

SpecFusion == InitFusion /\ [][NextFusion]_vars

\* the first position of a document in a list, 0 when it is not in it
RECURSIVE PositionIn(_, _, _)
PositionIn(docs, d, i) ==
    IF i > Len(docs) THEN 0
    ELSE IF docs[i] = d THEN i
    ELSE PositionIn(docs, d, i + 1)

\* C21: the fused result of a query is in descending order of the fused
\* score (both indexes queried with k=10, weights 0.5/0.5), and of two
\* chunks with the same fused score the one in the lexical result comes
\* first, and when both or neither are in it the one inserted earlier into
\* the corpus comes first
C21_FusedOrder ==
    [][\A t \in Threads, q \in Queries :
          (GetContext(t, q) /\ ensemble_retriever.set)
              => LET lex == BM25Search(ensemble_retriever.bm25.docs, q)
                     vec == SimilaritySearch(vector_db, q)
                     r == th'[t].retrieved
                     fused(d) == rrf_score(<<lex, vec>>, d.page_content)
                     inlex(d) == PositionIn(lex, d, 1) > 0
                 IN \A i, j \in 1..Len(r) :
                        i < j =>
                          /\ fused(r[i]) >= fused(r[j])
                          /\ fused(r[i]) = fused(r[j])
                                => /\ inlex(r[i]) \/ ~inlex(r[j])
                                   /\ (inlex(r[i]) <=> inlex(r[j]))
                                         => PositionIn(all_documents, r[i], 1)
                                              < PositionIn(all_documents, r[j], 1)]_vars

C23_SequenceStrictlyIncreasing ==
    \A t \in Threads :
        \A i, j \in 1..Len(th[t].documents) :
            i < j => /\ th[t].documents[i].chunk_id[4] < th[t].documents[j].chunk_id[4]
                     /\ th[t].documents[i].chunk_id # th[t].documents[j].chunk_id

\* a file of more than one chunk has been chunked
C23_Witness ==
    \E t \in Threads : th[t].pc = "vdb_extend" /\ Len(th[t].documents) >= 2

\* the PDF files under notes/
NotesFiles ==
    UNION {{Glob(NotesDir[d])[i] : i \in 1..Len(Glob(NotesDir[d]))} : d \in 1..Len(NotesDir)}

\* C24: a PDF without extractable text (pdf_2_md returns the empty list) is
\* a successful document of zero chunks: recreate_vector_dbs_from_notes
\* counts as processed every file that could be parsed, and only the
\* unparseable ones as failed
C24_EmptyDocumentIsSuccess ==
    \A t \in Threads :
        (th[t].op = "recreate" /\ th[t].pc = "done")
            => th[t].processed_files
                 = Cardinality({f \in NotesFiles : pdf_2_md(f, "S1").ok})

\* the sequence s begins with the sequence p
IsPrefix(p, s) ==
    /\ Len(p) <= Len(s)
    /\ SubSeq(s, 1, Len(p)) = p

\* C25: within a process every step leaves the corpus a prefix of the new
\* corpus, chunks and positions unchanged, except the wipe of
\* clear_all_vector_dbs, which empties it; no step removes or edits a
\* single chunk.  (A restart begins a new process with an empty corpus.)
C25_CorpusAppendOnly ==
    [][\/ IsPrefix(all_documents, all_documents')
       \/ (\E t \in Threads : ClearDocs(t)) /\ all_documents' = <<>>
       \/ Restart \/ RestartReloadFails \/ RestartBuildFails]_vars

\* an add has appended its chunks to a corpus that already held chunks
C25_Witness ==
    \E t \in Threads :
        /\ th[t].pc = "vdb_add"
        /\ Len(all_documents) > Len(th[t].documents)
        /\ EndsWith(all_documents, th[t].documents)

(***************************************************************************)
(* The context string of get_context, by length.                           *)
(***************************************************************************)
\* a maximum context length to hold get_context against: the code
\* configures none
MaxContextLength == 20

\* len(page_content)
StringLen(page_content) ==
    CASE page_content = "tcp" -> 3
      [] page_content = "ip" -> 2
      [] page_content = "route" -> 5
      [] page_content = "dns" -> 3
      [] OTHER -> 1

\* lines 168-169: each document adds "\n" + page_content + "..." + "\n\n"
RECURSIVE ContextLen(_)
ContextLen(context) ==
    IF context = <<>>
    THEN 0
    ELSE StringLen(Head(context)) + 6 + ContextLen(Tail(context))

\* the whole chunks of a ranked list that fit into max characters, in rank
\* order, up to the first that does not fit
RECURSIVE Fitting(_, _)
Fitting(docs, max) ==
    IF docs = <<>> \/ StringLen(Head(docs).page_content) + 6 > max
    THEN <<>>
    ELSE <<Head(docs)>> \o Fitting(Tail(docs), max - (StringLen(Head(docs).page_content) + 6))

\* C26: the context get_context returns is never longer than the maximum
\* context length, and holds the whole chunks that fit, in rank order
C26_ContextWithinLimit ==
    \A t \in Threads :
        (th[t].op = "get_context" /\ th[t].pc = "done")
            => /\ ContextLen(th[t].context) <= MaxContextLength
               /\ th[t].context = Context(Fitting(th[t].retrieved, MaxContextLength))

\* C27: the context get_context returns holds no chunk text twice
C27_ContextSkipsDuplicates ==
    \A t \in Threads :
        (th[t].op = "get_context" /\ th[t].pc = "done")
            => \A i, j \in 1..Len(th[t].context) :
                   i # j => th[t].context[i] # th[t].context[j]

\* C28: a failure of the embedding call during an add (in
\* vector_store.add_documents or in Chroma.from_documents) is followed by
\* another attempt: the first failure does not end the add
C28_EmbeddingFailureIsRetried ==
    [][\A t \in Threads :
          (VdbAddFails(t) \/ BuildChromaFails(t)) => th'[t].pc = th[t].pc]_vars

\* C29: when add_to_vdb returns normally, all_documents.pkl holds exactly
\* the in-memory corpus, the same chunks in the same order
C29_SnapshotEqualsCorpus ==
    \A t \in Threads :
        th[t].pc = "vdb_ret" => pkl = [st |-> "complete", docs |-> all_documents]

\* C30: whenever ensemble_retriever or vector_store is set, the in-memory
\* corpus is not empty
C30_IndexImpliesCorpus ==
    (ensemble_retriever.set \/ vector_store) => all_documents # <<>>

\* C31: a load_documents that returns False at start-up (no snapshot, an
\* unreadable snapshot, or the reload of the vector store raising) leaves
\* the corpus empty and no vector store set
C31_FailedLoadLeavesNothing ==
    [][((Restart /\ pkl.st # "complete") \/ RestartReloadFails)
          => (all_documents' = <<>> /\ ~vector_store')]_vars

(***************************************************************************)
(* scraper.py: the notes site, the download of the PDF files and the two   *)
(* dictionaries sources and notes_link with their JSON files.              *)
(***************************************************************************)
\* the subject codes that have a page on the notes site
OnSite(sub_code) == sub_code \in {"S1", "S2"}

\* a Google Drive preview link, as the list of its segments between "/"
DriveLink(file_id) ==
    <<"https:", "", "drive.google.com", "file", "d", file_id, "preview">>

\* the empty string, split on "/"
EmptyLink == <<"">>

\* the list get_notes builds from the page of a subject (lines 160-165):
\* one pair (iframe src, title) per note; an iframe without src gives ""
SiteNotes(sub_code) ==
    CASE sub_code = "S1" ->
            << <<DriveLink("ida"), "a">>, <<DriveLink("idx"), "x:">> >>
      [] sub_code = "S2" ->
            << <<DriveLink("idb"), "b">>, <<EmptyLink, "e">> >>
      [] OTHER -> <<>>

\* line 53: the characters of the title that are not alphanumeric, " ",
\* "-" or "_" are dropped
clean_name(name) == IF name = "x:" THEN "x" ELSE name

\* the PDF file download() writes for a title
PdfName(name) ==
    CASE clean_name(name) = "a" -> "a.pdf"
      [] clean_name(name) = "x" -> "x.pdf"
      [] clean_name(name) = "b" -> "b.pdf"
      [] OTHER -> "e.pdf"

\* make_download_link returning False
NoLink == [url |-> FALSE, id |-> ""]

\* link_elems.index("d"), counted from 1; 0 when "d" is not a segment
RECURSIVE IndexOfD(_)
IndexOfD(link_elems) ==
    IF link_elems = <<>> THEN 0
    ELSE IF Head(link_elems) = "d" THEN 1
    ELSE LET i == IndexOfD(Tail(link_elems))
         IN IF i = 0 THEN 0 ELSE i + 1

\* make_download_link taking the segment after the last "d"
make_download_linkLastD(link) ==
    LET ds == {i \in 1..Len(link) : link[i] = "d"}
        last == CHOOSE i \in ds : \A j \in ds : j <= i
    IN IF link = EmptyLink \/ ds = {} \/ last + 1 > Len(link)
       THEN NoLink
       ELSE [url |-> TRUE, id |-> link[last + 1]]

\* make_download_link(link), lines 10-20; the result is the URL
\* https://drive.google.com/uc?export=download&id=<id>, or False
make_download_link(link) ==
    IF link = EmptyLink
    THEN NoLink
    ELSE LET d == IndexOfD(link)
         IN IF d # 0 /\ d + 1 <= Len(link)
            THEN [url |-> TRUE, id |-> link[d + 1]]
            ELSE NoLink

\* what the request of download_pdf can do: answer with the whole file,
\* fail before a byte is written, or fail while the file is being written
Outcomes == {"ok", "refused", "broken"}

\* download_pdf(link, file_path), lines 22-41: ret is the value returned,
\* written tells whether file_path has been created
download_pdf(link, outcome) ==
    LET d_link == make_download_link(link)
    IN IF ~d_link.url
       THEN [ret |-> FALSE, written |-> FALSE, id |-> ""]
       ELSE [ret |-> outcome = "ok", written |-> outcome # "refused",
             id |-> d_link.id]

\* download(lst, sub_code), lines 43-59: the files in notes/<sub_code>
\* afterwards; outcomes[i] is what the request for lst[i] does
download(lst, sub_code, outcomes) ==
    [dir |-> TRUE,
     files |-> notes[sub_code].files \cup
               {PdfName(lst[i][2]) : i \in
                  {j \in 1..Len(lst) : download_pdf(lst[j][1], outcomes[j]).written}}]

\* get_source(branch, sub_code), lines 81-125: the value returned ("none"
\* for False), whether the site was asked, and the dictionary and its file
\* afterwards.  save_sources prints an exception and goes on (lines 68-75).
get_source(sub_code, request_ok, save_ok) ==
    IF sources[sub_code] # "none"
    THEN [ret |-> sources[sub_code], requested |-> FALSE,
          sources |-> sources, sources_json |-> sources_json]
    ELSE IF request_ok /\ OnSite(sub_code)
    THEN LET found == [sources EXCEPT ![sub_code] = "href"]
         IN [ret |-> "href", requested |-> TRUE, sources |-> found,
             sources_json |-> IF save_ok THEN found ELSE sources_json]
    ELSE [ret |-> "none", requested |-> TRUE,
          sources |-> sources, sources_json |-> sources_json]

\* get_notes asking the site whatever notes_link holds
get_notesNoCache(sub_code, request_ok, page_ok, save_ok, save_notes_ok, outcomes) ==
    LET s == get_source(sub_code, request_ok, save_ok)
        lst == SiteNotes(sub_code)
        recorded == [notes_link EXCEPT ![sub_code] = lst]
        same == [ret |-> <<>>, requested |-> s.requested, scraped |-> FALSE,
                 downloaded |-> FALSE,
                 sources |-> s.sources, sources_json |-> s.sources_json,
                 notes_link |-> notes_link, notes_link_json |-> notes_link_json,
                 notes |-> notes]
    IN IF s.ret = "none"
       THEN same
       ELSE IF ~page_ok \/ lst = <<>>
       THEN [same EXCEPT !.scraped = TRUE]
       ELSE [same EXCEPT !.ret = lst, !.scraped = TRUE, !.downloaded = TRUE,
                         !.notes_link = recorded,
                         !.notes_link_json =
                             IF save_notes_ok THEN recorded ELSE notes_link_json,
                         !.notes = [notes EXCEPT ![sub_code] =
                                        download(lst, sub_code, outcomes)]]

\* get_notes(branch, sub_code), lines 127-194: ret is the value returned
\* (<<>> for False), requested and scraped tell whether get_source and
\* get_notes itself asked the site, downloaded whether download() was
\* called; the other fields are the state afterwards
get_notes(sub_code, request_ok, page_ok, save_ok, save_notes_ok, outcomes) ==
    LET s == get_source(sub_code, request_ok, save_ok)
        lst == SiteNotes(sub_code)
        recorded == [notes_link EXCEPT ![sub_code] = lst]
        same == [ret |-> <<>>, requested |-> s.requested, scraped |-> FALSE,
                 downloaded |-> FALSE,
                 sources |-> s.sources, sources_json |-> s.sources_json,
                 notes_link |-> notes_link, notes_link_json |-> notes_link_json,
                 notes |-> notes]
    IN IF s.ret = "none"
       THEN same
       ELSE IF notes_link[sub_code] # <<>>
       THEN [same EXCEPT !.ret = notes_link[sub_code]]
       ELSE IF ~page_ok \/ lst = <<>>
       THEN [same EXCEPT !.scraped = TRUE]
       ELSE [same EXCEPT !.ret = lst, !.scraped = TRUE, !.downloaded = TRUE,
                         !.notes_link = recorded,
                         !.notes_link_json =
                             IF save_notes_ok THEN recorded ELSE notes_link_json,
                         !.notes = [notes EXCEPT ![sub_code] =
                                        download(lst, sub_code, outcomes)]]

(***************************************************************************)
(* The /download command of the bot (tele_bot.py lines 300-366, and the    *)
(* download button of telegram_bot.py lines 755-786).                      *)
(***************************************************************************)
\* the PDF files of notes/<sub_code>, as Path.glob("*.pdf") lists them
NotesGlob(sub_code) ==
    SelectSeq(<<"a.pdf", "b.pdf", "e.pdf", "x.pdf">>,
              LAMBDA f : f \in notes[sub_code].files)

\* what the requests of a download of two files can do
DownloadOutcomes == [1..2 -> {"ok", "refused"}]

\* lines 321-328: scraper.get_notes runs in the executor
DownloadCommand(sub_code, request_ok, page_ok, save_ok, save_notes_ok, outcomes) ==
    /\ upd.pc = "idle"
    /\ th["t1"].pc = "idle"
    /\ LET r == get_notes(sub_code, request_ok, page_ok, save_ok, save_notes_ok, outcomes)
       IN /\ sources' = r.sources
          /\ sources_json' = r.sources_json
          /\ notes_link' = r.notes_link
          /\ notes_link_json' = r.notes_link_json
          /\ notes' = r.notes
          /\ upd' = [pc |-> IF r.ret # <<>> THEN "add_to_db" ELSE "report",
                     op |-> "download", sub_code |-> sub_code,
                     result |-> r.ret,
                     requested |-> r.requested \/ r.scraped,
                     downloaded |-> r.downloaded,
                     reported |-> "none", pdf_count |-> 0]
    /\ UNCHANGED <<mem, disk, th>>

\* lines 330-335, "if result:": rag.add_to_db(subject_code) starts in the
\* executor; it returns at once when notes/<subject_code> does not exist
DownloadAddToDb ==
    /\ upd.pc = "add_to_db"
    /\ th["t1"].pc = "idle"
    /\ th' = [th EXCEPT !["t1"] =
                 IF notes[upd.sub_code].dir
                 THEN Loop([Idle EXCEPT !.op = "add_to_db",
                                        !.sub_code = upd.sub_code,
                                        !.files = NotesGlob(upd.sub_code)])
                 ELSE [Idle EXCEPT !.pc = "done", !.op = "add_to_db",
                                   !.sub_code = upd.sub_code]]
    /\ upd' = [upd EXCEPT !.pc = "ingesting"]
    /\ UNCHANGED <<mem, disk, scraper>>

\* lines 337-350: add_to_db has returned, the PDF files are counted and
\* the status message becomes "Successfully downloaded <code>!"
DownloadReportSuccess ==
    /\ upd.pc = "ingesting"
    /\ th["t1"].pc = "done"
    /\ th' = [th EXCEPT !["t1"] = Idle]
    /\ upd' = [upd EXCEPT !.pc = "done", !.reported = "success",
                          !.pdf_count = Cardinality(notes[upd.sub_code].files)]
    /\ UNCHANGED <<mem, disk, scraper>>

\* lines 351-358, the else branch: "Failed to download <code>"
DownloadReportFailure ==
    /\ upd.pc = "report"
    /\ upd' = [upd EXCEPT !.pc = "done", !.reported = "failed"]
    /\ UNCHANGED <<mem, disk, scraper, th>>

\* the handler has returned
UpdateDone ==
    /\ upd.pc = "done"
    /\ upd' = NoUpdate
    /\ UNCHANGED <<mem, disk, scraper, th>>

\* the process is restarted between two updates: rag.py starts up and
\* scraper.py loads its dictionaries from the JSON files (lines 77-79)
BotRestart ==
    /\ upd.pc = "idle"
    /\ Quiescent
    /\ StartUp(TRUE, TRUE)
    /\ sources' = sources_json
    /\ notes_link' = notes_link_json
    /\ UNCHANGED <<sources_json, notes_link_json, notes, upd>>

\* one bot handling one update at a time; no call of rag.py fails, the
\* requests and the writes of scraper.py may
NextBot ==
    \/ \E s \in SubjectCodes, request_ok, page_ok, save_ok, save_notes_ok \in BOOLEAN,
          outcomes \in DownloadOutcomes :
          DownloadCommand(s, request_ok, page_ok, save_ok, save_notes_ok, outcomes)
    \/ DownloadAddToDb
    \/ VdbExtend("t1")
    \/ VdbAdd("t1")
    \/ SaveOpen("t1")
    \/ SaveDump("t1")
    \/ BuildCheck("t1")
    \/ BuildBM25("t1")
    \/ BuildChroma("t1")
    \/ BuildVectorRetriever("t1")
    \/ BuildEnsemble("t1")
    \/ VdbReturn("t1")
    \/ DownloadReportSuccess
    \/ DownloadReportFailure
    \/ UpdateDone
    \/ BotRestart

SpecBot == Init /\ [][NextBot]_vars


\* a /download command has just called get_notes for a subject code whose
\* notes list was recorded before the call
RecordedCall ==
    /\ upd.op = "none"
    /\ upd'.op = "download"
    /\ notes_link[upd'.sub_code] # <<>>

\* C32 (as stated): once a notes list is recorded for a subject code, a
\* later get_notes for that code returns the recorded list and neither
\* asks the site nor downloads
C32_RecordedListReturned ==
    [][RecordedCall
          => /\ upd'.result = notes_link[upd'.sub_code]
             /\ ~upd'.requested
             /\ ~upd'.downloaded]_vars

\* C32 (amended): once a notes list is recorded for a subject code whose
\* source page is recorded in sources too, a later get_notes for that code
\* returns the recorded list, asks the site for nothing, downloads nothing
\* and leaves the dictionaries, their files and the notes as they are
C32_RecordedListReturnedIfSourceKnown ==
    [][(RecordedCall /\ sources[upd'.sub_code] # "none")
          => /\ upd'.result = notes_link[upd'.sub_code]
             /\ ~upd'.requested
             /\ ~upd'.downloaded
             /\ UNCHANGED scraper]_vars

\* a recorded list has been returned for a subject none of whose files
\* was downloaded
C32_Witness ==
    /\ upd.op = "download"
    /\ upd.result # <<>>
    /\ ~upd.requested
    /\ ~upd.downloaded
    /\ notes[upd.sub_code].files = {}

\* C33: while the bot ingests a subject after /download, and when it has
\* reported the subject as successfully downloaded, at least one PDF file
\* of the subject is in notes/<subject_code>
C33_SuccessOnlyWithPdf ==
    (upd.op = "download" /\ (upd.pc = "ingesting" \/ upd.reported = "success"))
        => notes[upd.sub_code].files # {}


(***************************************************************************)
(* make_download_link and download_pdf on any link.                        *)
(***************************************************************************)
\* the longest link, in segments, and the segments a link is made of
MaxLinkLen == 4
Segments == {"", "d", "k"}

\* str.split("/") gives at least one segment; "" gives the one segment ""
Links == UNION {[1..n -> Segments] : n \in 1..MaxLinkLen}

\* download_pdf(link, "notes/S1/a.pdf") is about to be called, after
\* download() has made the directory (line 44)
InitLink ==
    /\ all_documents = <<>>
    /\ ensemble_retriever = NoEnsemble
    /\ bm25_retriever = NoBM25
    /\ vector_retriever = FALSE
    /\ vector_store = FALSE
    /\ pkl = [st |-> "absent", docs |-> <<>>]
    /\ vdb_dir = FALSE
    /\ vector_db = <<>>
    /\ th = [t \in Threads |-> Idle]
    /\ sources = [c \in SubjectCodes |-> "none"]
    /\ notes_link = [c \in SubjectCodes |-> <<>>]
    /\ sources_json = [c \in SubjectCodes |-> "none"]
    /\ notes_link_json = [c \in SubjectCodes |-> <<>>]
    /\ notes = [c \in SubjectCodes |-> [dir |-> c = "S1", files |-> {}]]
    /\ upd \in {[pc |-> "call", op |-> "download_pdf", link |-> l,
                 d_link |-> NoLink, ret |-> FALSE] : l \in Links}

\* download_pdf(upd.link, "notes/S1/a.pdf"), lines 22-41
DownloadPdf(outcome) ==
    /\ upd.pc = "call"
    /\ LET r == download_pdf(upd.link, outcome)
       IN /\ upd' = [upd EXCEPT !.pc = "done", !.ret = r.ret,
                                !.d_link = make_download_link(upd.link)]
          /\ notes' = IF r.written
                      THEN [notes EXCEPT !["S1"].files = @ \cup {"a.pdf"}]
                      ELSE notes
    /\ UNCHANGED <<mem, disk, th, sources, notes_link, sources_json, notes_link_json>>

NextLink == \E outcome \in Outcomes : DownloadPdf(outcome)

SpecLink == InitLink /\ [][NextLink]_vars

\* the positions of the segments "d" of a link
DSegments(link) == {i \in 1..Len(link) : link[i] = "d"}

\* C37: make_download_link gives a URL exactly when some segment "d" of the
\* link has a segment after it, the id of the URL is the segment after the
\* first "d", and when it gives False download_pdf returns False and
\* writes no file
C37_DownloadLink ==
    upd.pc = "done" =>
        LET ds == DSegments(upd.link)
        IN /\ upd.d_link.url <=> (\E i \in ds : i < Len(upd.link))
           /\ upd.d_link.url =>
                  \E i \in ds : /\ \A j \in ds : i <= j
                                /\ upd.d_link.id = upd.link[i + 1]
           /\ ~upd.d_link.url =>
                  (~upd.ret /\ notes["S1"].files = {} /\ upd.d_link = NoLink)

\* a link with two segments "d" followed by different segments has been
\* downloaded
C37_Witness ==
    /\ upd.pc = "done"
    /\ upd.op = "download_pdf"
    /\ upd.d_link.url
    /\ upd.ret
    /\ notes["S1"].files = {"a.pdf"}
    /\ \E i, j \in DSegments(upd.link) :
           i < j /\ j < Len(upd.link) /\ upd.link[i + 1] # upd.link[j + 1]


(***************************************************************************)
(* The handlers of the bot that touch neither rag.py nor scraper.py start  *)
(* from a process at rest.                                                 *)
(***************************************************************************)
AtRest ==
    /\ all_documents = <<>>
    /\ ensemble_retriever = NoEnsemble
    /\ bm25_retriever = NoBM25
    /\ vector_retriever = FALSE
    /\ vector_store = FALSE
    /\ pkl = [st |-> "absent", docs |-> <<>>]
    /\ vdb_dir = FALSE
    /\ vector_db = <<>>
    /\ th = [t \in Threads |-> Idle]
    /\ InitScraper

\* a step of a handler
Handle(u) ==
    /\ upd' = u
    /\ UNCHANGED <<mem, disk, th, scraper>>

(***************************************************************************)
(* send_notes_files(update, subject_code), tele_bot.py lines 216-298.      *)
(***************************************************************************)
\* the most PDF files a subject has
MaxFiles == 3

\* line 257: 50 * 1024 * 1024 bytes
SizeLimit == 52428800

\* the sizes of the files: a small one, one of exactly 50 MB, a larger one
Sizes == {1, SizeLimit, SizeLimit + 1}

\* lines 218-248: the directory exists, pdf_files has been listed (here by
\* the sizes of the files), the status message is out and both counters
\* are 0; sent and tried are the files delivered and the files the loop
\* has taken up
InitSend ==
    /\ AtRest
    /\ upd \in {[pc |-> "loop", op |-> "send_notes_files", pdf_files |-> f,
                 i |-> 1, sent_files |-> 0, failed_files |-> 0,
                 sent |-> {}, tried |-> {}] :
                    f \in UNION {[1..n -> Sizes] : n \in 0..MaxFiles}}

\* the loop is at file upd.i
AtFile ==
    /\ upd.op = "send_notes_files"
    /\ upd.pc = "loop"
    /\ upd.i <= Len(upd.pdf_files)

\* lines 232-239: no PDF file, the handler replies and returns
SendNoFiles ==
    /\ upd.op = "send_notes_files"
    /\ upd.pc = "loop"
    /\ upd.pdf_files = <<>>
    /\ Handle([upd EXCEPT !.pc = "returned"])

\* lines 256-265: the file is larger than 50 MB, the user is told so
SendTooLarge ==
    /\ AtFile
    /\ upd.pdf_files[upd.i] > SizeLimit
    /\ Handle([upd EXCEPT !.i = @ + 1, !.failed_files = @ + 1,
                          !.tried = @ \cup {upd.i}])

\* lines 268-278: reply_document delivers the file
SendFile ==
    /\ AtFile
    /\ upd.pdf_files[upd.i] <= SizeLimit
    /\ Handle([upd EXCEPT !.i = @ + 1, !.sent_files = @ + 1,
                          !.sent = @ \cup {upd.i}, !.tried = @ \cup {upd.i}])

\* an exception at one file ending the loop
SendFailsStops ==
    /\ AtFile
    /\ Handle([upd EXCEPT !.i = Len(upd.pdf_files) + 1, !.failed_files = @ + 1,
                          !.tried = @ \cup {upd.i}])

\* lines 280-287: stat, reply_document or the "too large" reply raises;
\* the user is told and the loop goes on
SendFails ==
    /\ AtFile
    /\ Handle([upd EXCEPT !.i = @ + 1, !.failed_files = @ + 1,
                          !.tried = @ \cup {upd.i}])

\* lines 280-286: the reply of the except clause raises too and the
\* exception leaves send_notes_files
SendAborts ==
    /\ AtFile
    /\ Handle([upd EXCEPT !.pc = "aborted", !.tried = @ \cup {upd.i}])

\* lines 290-298: the status message becomes the completion message
SendComplete ==
    /\ upd.op = "send_notes_files"
    /\ upd.pc = "loop"
    /\ upd.pdf_files # <<>>
    /\ upd.i > Len(upd.pdf_files)
    /\ Handle([upd EXCEPT !.pc = "complete"])

NextSend ==
    \/ SendNoFiles
    \/ SendTooLarge
    \/ SendFile
    \/ SendFails
    \/ SendAborts
    \/ SendComplete

SpecSend == InitSend /\ [][NextSend]_vars

\* C34: no file larger than 50 MB is ever delivered; at the completion
\* message sent_files + failed_files is the number of PDF files, the
\* loop has taken up every file, sent_files counts the files delivered and
\* failed_files those not delivered, the files over 50 MB among them
C34_SendBookkeeping ==
    upd.op = "send_notes_files" =>
        LET n == Len(upd.pdf_files)
        IN /\ \A k \in upd.sent : upd.pdf_files[k] <= SizeLimit
           /\ upd.pc = "complete" =>
                 /\ upd.sent_files + upd.failed_files = n
                 /\ upd.tried = 1..n
                 /\ upd.sent_files = Cardinality(upd.sent)
                 /\ upd.failed_files = n - Cardinality(upd.sent)
                 /\ \A k \in 1..n : upd.pdf_files[k] > SizeLimit => k \notin upd.sent

\* the completion message after a file over 50 MB, a file whose sending
\* failed, and a file delivered after both
C34_Witness ==
    /\ upd.op = "send_notes_files"
    /\ upd.pc = "complete"
    /\ \E a, b, c \in 1..Len(upd.pdf_files) :
          /\ a < c /\ b < c
          /\ upd.pdf_files[a] > SizeLimit
          /\ upd.pdf_files[b] <= SizeLimit /\ b \notin upd.sent
          /\ c \in upd.sent /\ upd.pdf_files[c] = SizeLimit


(***************************************************************************)
(* process_question(update, question), tele_bot.py lines 419-503.  A text  *)
(* is kept by its length, a piece of the formatted answer by the slice it  *)
(* is.                                                                     *)
(***************************************************************************)
\* line 449: the longest text that is sent as one message
MessageLimit == 4096

\* line 450: the length of a piece
PieceLen == 4000

\* lines 444-446: the characters of formatted_answer around the escaped
\* question and the escaped answer
Overhead == 61

\* line 466: the characters of the plain text around question and answer
PlainOverhead == 51

\* the questions: len characters, special of them among _ * ` [
Questions == {[len |-> 5, special |-> 0], [len |-> 5, special |-> 2]}

\* the answers of rag.ask_llm: len characters, markdown of them among the
\* ones strip_markdown removes
Answers ==
    {[len |-> n, markdown |-> m] :
        n \in {10, 4028, 4030, 4031, 4050, 7960, 8100}, m \in {0, 40}}

\* strip_markdown(text), lines 414-416: the length of the result
strip_markdown(text) == text.len - text.markdown

\* escape_markdown(text, version=1): a backslash goes in front of every
\* _ * ` [ ; the stripped answer has none of them left
escape_markdown(len, special) == len + special

\* lines 440-446: len(formatted_answer)
FormattedLen(question, answer) ==
    Overhead + escape_markdown(question.len, question.special)
             + escape_markdown(strip_markdown(answer), 0)

\* line 450: [formatted_answer[i:i+4000] for i in range(0, len, 4000)],
\* each piece as the slice [from, to) of formatted_answer
Chunks(n) ==
    [k \in 1..((n + PieceLen - 1) \div PieceLen) |->
        [from |-> (k - 1) * PieceLen,
         to |-> IF k * PieceLen <= n THEN k * PieceLen ELSE n]]

\* lines 449-450 and 468-471: the texts the handler is going to send
ToSend(n) ==
    IF n > MessageLimit THEN Chunks(n) ELSE <<[from |-> 0, to |-> n]>>

\* line 466: the length of the plain text of the except clauses
PlainLen(question, answer) == PlainOverhead + question.len + answer.len

\* lines 423-435: the "Thinking" message is out and rag.ask_llm has
\* returned the answer; out is the list of texts handed to Telegram
InitAnswer ==
    /\ AtRest
    /\ upd \in {[pc |-> "format", op |-> "process_question",
                 question |-> q, answer |-> a, formatted |-> 0,
                 chunks |-> <<>>, k |-> 1, out |-> <<>>] :
                    q \in Questions, a \in Answers}

\* lines 437-450
Format ==
    /\ upd.op = "process_question"
    /\ upd.pc = "format"
    /\ LET n == FormattedLen(upd.question, upd.answer)
       IN Handle([upd EXCEPT !.pc = "send", !.formatted = n, !.chunks = ToSend(n)])

\* lines 453-462 and 470-473: the next text goes out, the first one by
\* editing the "Thinking" message, the others as replies
SendChunk ==
    /\ upd.op = "process_question"
    /\ upd.pc = "send"
    /\ upd.k <= Len(upd.chunks)
    /\ Handle([upd EXCEPT !.k = @ + 1,
                          !.out = Append(@, [how |-> IF upd.k = 1 THEN "edit" ELSE "reply",
                                             markdown |-> TRUE,
                                             from |-> upd.chunks[upd.k].from,
                                             to |-> upd.chunks[upd.k].to,
                                             len |-> upd.chunks[upd.k].to - upd.chunks[upd.k].from])])

\* edit_text or reply_text raises for the next text (Telegram cannot parse
\* the Markdown of a piece, or the request fails): control goes to the
\* except clause of line 463 or 474
SendChunkRaises ==
    /\ upd.op = "process_question"
    /\ upd.pc = "send"
    /\ upd.k <= Len(upd.chunks)
    /\ Handle([upd EXCEPT !.pc = "fallback"])

\* lines 463-467 and 474-478: the "Thinking" message is edited to the
\* plain text, in one piece; Telegram refuses a text over 4096 characters
\* and the exception goes to the except clause of line 480
Fallback ==
    /\ upd.op = "process_question"
    /\ upd.pc = "fallback"
    /\ LET n == PlainLen(upd.question, upd.answer)
       IN Handle([upd EXCEPT !.pc = IF n <= MessageLimit THEN "done" ELSE "error",
                             !.out = Append(@, [how |-> "edit", markdown |-> FALSE,
                                                from |-> 0, to |-> n, len |-> n])])

\* every text is out: process_question returns
AnswerDone ==
    /\ upd.op = "process_question"
    /\ upd.pc = "send"
    /\ upd.k > Len(upd.chunks)
    /\ Handle([upd EXCEPT !.pc = "done"])

NextAnswer ==
    \/ Format
    \/ SendChunk
    \/ SendChunkRaises
    \/ Fallback
    \/ AnswerDone

SpecAnswer == InitAnswer /\ [][NextAnswer]_vars

\* C35: no text handed to Telegram is longer than 4096 characters; when
\* process_question has returned, a formatted answer of more than 4096
\* characters has gone out as consecutive slices of at most 4000
\* characters that make up the formatted answer, the first as an edit of
\* the "Thinking" message and the others as replies, and a shorter one as
\* one message
C35_AnswerSplit ==
    upd.op = "process_question" =>
        /\ \A m \in 1..Len(upd.out) : upd.out[m].len <= MessageLimit
        /\ (upd.pc = "done" /\ upd.formatted <= MessageLimit) =>
              (Len(upd.out) = 1 /\ upd.out[1].how = "edit")
        /\ (upd.pc = "done" /\ upd.formatted > MessageLimit) =>
              /\ upd.out[1].from = 0
              /\ upd.out[Len(upd.out)].to = upd.formatted
              /\ \A m \in 1..Len(upd.out) :
                    /\ upd.out[m].how = IF m = 1 THEN "edit" ELSE "reply"
                    /\ upd.out[m].markdown
                    /\ m > 1 => upd.out[m].from = upd.out[m - 1].to
                    /\ upd.out[m].len <= PieceLen


(***************************************************************************)
(* The inline keyboards of tele_bot.py and button_handler (lines 505-552). *)
(* upd.chat is the list of the messages the bot has put into the chat,     *)
(* each by the keyboard it carries; a button of any of them can be         *)
(* pressed.                                                                *)
(***************************************************************************)
\* the most messages of the bot in the chat
MaxChat == 3

\* the callback values of the buttons of a message: the start menu (lines
\* 91-97), the subjects menu (lines 167-171), or a text without keyboard
Keyboard(message) ==
    CASE message = "start" -> {"subjects", "download", "notes", "ask", "help"}
      [] message = "subjects" -> {"download", "notes", "ask"}
      [] OTHER -> {}

\* the branch of button_handler that query.data selects (lines 510-552)
Branch(data) ==
    CASE data = "subjects" -> "subjects_command"
      [] data \in {"download", "notes", "ask"} -> "edit_message_text"
      [] data = "help" -> "help_command"
      [] OTHER -> "none"

\* nothing in the chat, no update being handled
InitButtons ==
    /\ AtRest
    /\ upd = [pc |-> "idle", op |-> "button_handler", chat |-> <<>>,
              data |-> "none", at |-> 0, end |-> "none"]

\* no update is being handled and the chat has room for a message
Waiting ==
    /\ upd.op = "button_handler"
    /\ upd.pc = "idle"
    /\ Len(upd.chat) < MaxChat

\* /start, /subjects and /help: update.message.reply_text puts the start
\* menu, the subjects menu or the help text into the chat
Command(message) ==
    /\ Waiting
    /\ Handle([upd EXCEPT !.chat = Append(@, message), !.data = "none",
                          !.at = 0, !.end = "none"])

\* the user presses a button of message at: the update has a
\* callback_query and no message; lines 507-508
Press(at, data) ==
    /\ Waiting
    /\ at \in 1..Len(upd.chat)
    /\ data \in Keyboard(upd.chat[at])
    /\ Handle([upd EXCEPT !.pc = "button", !.data = data, !.at = at, !.end = "none"])

\* lines 510-516 and 176-186: subjects_command gets an update made of
\* query.message and replies to it with the subjects menu
ButtonSubjects ==
    /\ upd.op = "button_handler"
    /\ upd.pc = "button"
    /\ Branch(upd.data) = "subjects_command"
    /\ Handle([upd EXCEPT !.pc = "done", !.end = "reply",
                          !.chat = Append(@, "subjects")])

\* lines 517-549: query.edit_message_text replaces the message by a text
\* without keyboard
ButtonEdit ==
    /\ upd.op = "button_handler"
    /\ upd.pc = "button"
    /\ Branch(upd.data) = "edit_message_text"
    /\ Handle([upd EXCEPT !.pc = "done", !.end = "edit", !.chat[upd.at] = "text"])

\* lines 550-551 and 138: help_command(update, context) evaluates
\* update.message.reply_text with update.message None; the AttributeError
\* leaves button_handler
ButtonHelp ==
    /\ upd.op = "button_handler"
    /\ upd.pc = "button"
    /\ Branch(upd.data) = "help_command"
    /\ Handle([upd EXCEPT !.pc = "raised", !.end = "AttributeError"])

\* the update is finished
ButtonReturn ==
    /\ upd.op = "button_handler"
    /\ upd.pc \in {"done", "raised"}
    /\ Handle([upd EXCEPT !.pc = "idle"])

NextButtons ==
    \/ \E message \in {"start", "subjects", "text"} : Command(message)
    \/ \E at \in 1..MaxChat, data \in Keyboard("start") : Press(at, data)
    \/ ButtonSubjects
    \/ ButtonEdit
    \/ ButtonHelp
    \/ ButtonReturn

SpecButtons == InitButtons /\ [][NextButtons]_vars

\* C36: the callback value of a pressed button is matched by a branch of
\* button_handler, and handling it ends with a message edit or a reply,
\* not with an error
C36_ButtonsHandled ==
    (upd.op = "button_handler" /\ upd.pc # "idle") =>
        /\ Branch(upd.data) # "none"
        /\ upd.pc \in {"done", "raised"} => upd.end \in {"edit", "reply"}

====
